---------------------------- MODULE Spec2Model ----------------------------
(***************************************************************************)
(* Linguist Pro (gong-fq/123): the lookup / history / voice orchestration  *)
(* of App.tsx, the response parsing of services/geminiService.ts and the   *)
(* narration state machine of components/WordDisplay.tsx.                  *)
(*                                                                         *)
(* A JavaScript string is a sequence of characters, a character being a    *)
(* one-element TLA+ string; the backtick is written Backtick.              *)
(* A JavaScript value is a record [type, v].                               *)
(***************************************************************************)
EXTENDS Integers, Sequences, FiniteSets, TLC

(***************************************************************************)
(* JavaScript values                                                       *)
(***************************************************************************)
Backtick == "backtick"
Quote == "\""
Whitespace == {" ", "\n"}

JSString(s) == [type |-> "string", v |-> s]
JSNull == [type |-> "null", v |-> <<>>]
JSUndefined == [type |-> "undefined", v |-> <<>>]
JSObject(members) == [type |-> "object", v |-> members]
JSArray(elements) == [type |-> "array", v |-> elements]

\* JavaScript truthiness of a value (objects and arrays are truthy).
Truthy(x) ==
    CASE x.type = "string" -> x.v # <<>>
      [] x.type \in {"null", "undefined"} -> FALSE
      [] OTHER -> TRUE

\* obj[key] on an object value: the member's value, or undefined.
Get(obj, key) ==
    IF obj.type = "object" /\ \E i \in 1..Len(obj.v) : obj.v[i].k = key
    THEN (obj.v[CHOOSE i \in 1..Len(obj.v) : obj.v[i].k = key]).val
    ELSE JSUndefined

\* String.prototype.trim
RECURSIVE trimStart(_)
trimStart(s) ==
    IF s # <<>> /\ Head(s) \in Whitespace THEN trimStart(Tail(s)) ELSE s

RECURSIVE trimEnd(_)
trimEnd(s) ==
    IF s # <<>> /\ s[Len(s)] \in Whitespace
    THEN trimEnd(SubSeq(s, 1, Len(s) - 1))
    ELSE s

trim(s) == trimEnd(trimStart(s))

\* String.prototype.startsWith, and its use at an offset
startsWith(s, p) == Len(s) >= Len(p) /\ SubSeq(s, 1, Len(p)) = p

startsWithAt(s, i, p) ==
    i + Len(p) - 1 <= Len(s) /\ SubSeq(s, i, i + Len(p) - 1) = p

(***************************************************************************)
(* JSON.parse, for the JSON of strings (no escapes), objects, arrays and   *)
(* null.  A parse step returns [ok, pos, val]: pos is the index after the  *)
(* value read.                                                             *)
(***************************************************************************)
ParseFail == [ok |-> FALSE, pos |-> 0, val |-> JSNull]
ParseOk(p, x) == [ok |-> TRUE, pos |-> p, val |-> x]

RECURSIVE skipWs(_, _)
skipWs(t, i) ==
    IF i <= Len(t) /\ t[i] \in Whitespace THEN skipWs(t, i + 1) ELSE i

\* Index of the quote closing the string whose first character is at i;
\* 0 when the string is unterminated or holds a raw line break.
strEnd(t, i) ==
    LET stops == {j \in i..Len(t) : t[j] \in {Quote, "\n"}} IN
    IF stops = {} THEN 0
    ELSE LET j == CHOOSE m \in stops : \A n \in stops : m <= n
         IN IF t[j] = Quote THEN j ELSE 0

\* Defining a member of an object under construction: a repeated key keeps
\* its place and takes the later value.
putMember(members, key, x) ==
    IF \E i \in 1..Len(members) : members[i].k = key
    THEN [i \in 1..Len(members) |->
            IF members[i].k = key THEN [k |-> key, val |-> x] ELSE members[i]]
    ELSE Append(members, [k |-> key, val |-> x])

RECURSIVE parseValue(_, _), parseMembers(_, _, _, _), parseElements(_, _, _, _)
parseValue(t, i) ==
    LET j == skipWs(t, i) IN
    IF j > Len(t) THEN ParseFail
    ELSE IF t[j] = Quote THEN
        LET e == strEnd(t, j + 1) IN
        IF e = 0 THEN ParseFail
        ELSE ParseOk(e + 1, JSString(SubSeq(t, j + 1, e - 1)))
    ELSE IF t[j] = "{" THEN parseMembers(t, j + 1, <<>>, TRUE)
    ELSE IF t[j] = "[" THEN parseElements(t, j + 1, <<>>, TRUE)
    ELSE IF startsWithAt(t, j, <<"n", "u", "l", "l">>) THEN ParseOk(j + 4, JSNull)
    ELSE ParseFail

parseMembers(t, i, acc, first) ==
    LET j == skipWs(t, i) IN
    IF j > Len(t) THEN ParseFail
    ELSE IF t[j] = "}" THEN
        (IF first THEN ParseOk(j + 1, JSObject(acc)) ELSE ParseFail)
    ELSE IF t[j] # Quote THEN ParseFail
    ELSE
        LET e == strEnd(t, j + 1) IN
        IF e = 0 THEN ParseFail
        ELSE
            LET key == SubSeq(t, j + 1, e - 1)
                c == skipWs(t, e + 1)
            IN
            IF c > Len(t) \/ t[c] # ":" THEN ParseFail
            ELSE
                LET r == parseValue(t, c + 1) IN
                IF ~r.ok THEN ParseFail
                ELSE
                    LET n == skipWs(t, r.pos)
                        acc2 == putMember(acc, key, r.val)
                    IN
                    IF n > Len(t) THEN ParseFail
                    ELSE IF t[n] = "," THEN parseMembers(t, n + 1, acc2, FALSE)
                    ELSE IF t[n] = "}" THEN ParseOk(n + 1, JSObject(acc2))
                    ELSE ParseFail

parseElements(t, i, acc, first) ==
    LET j == skipWs(t, i) IN
    IF j > Len(t) THEN ParseFail
    ELSE IF t[j] = "]" THEN
        (IF first THEN ParseOk(j + 1, JSArray(acc)) ELSE ParseFail)
    ELSE
        LET r == parseValue(t, j) IN
        IF ~r.ok THEN ParseFail
        ELSE
            LET n == skipWs(t, r.pos)
                acc2 == Append(acc, r.val)
            IN
            IF n > Len(t) THEN ParseFail
            ELSE IF t[n] = "," THEN parseElements(t, n + 1, acc2, FALSE)
            ELSE IF t[n] = "]" THEN ParseOk(n + 1, JSArray(acc2))
            ELSE ParseFail

\* JSON.parse(t): [threw, val]; threw is the SyntaxError.
JSONparse(t) ==
    LET r == parseValue(t, 1) IN
    IF r.ok /\ skipWs(t, r.pos) = Len(t) + 1
    THEN [threw |-> FALSE, val |-> r.val]
    ELSE [threw |-> TRUE, val |-> JSUndefined]

(***************************************************************************)
(* geminiService.ts: lookupWord, from the response text on                 *)
(***************************************************************************)
Fence == <<Backtick, Backtick, Backtick>>
FenceJson == Fence \o <<"j", "s", "o", "n">>

\* text.replace(/```json|```/g, ''): every match is removed, the matches
\* being found left to right, the longer alternative tried first.
RECURSIVE replaceFences(_)
replaceFences(s) ==
    LET matches == {i \in 1..Len(s) : startsWithAt(s, i, Fence)} IN
    IF matches = {} THEN s
    ELSE LET i == CHOOSE m \in matches : \A n \in matches : m <= n
             matched == IF startsWithAt(s, i, FenceJson) THEN FenceJson ELSE Fence
         IN SubSeq(s, 1, i - 1) \o replaceFences(SubSeq(s, i + Len(matched), Len(s)))

\* const jsonStr = text.startsWith('```json') ? text.replace(...) : text
stripJsonFence(text) ==
    IF startsWith(text, FenceJson) THEN replaceFences(text) ELSE text

\* The try block of lookupWord: [threw, val].  threw stands for the Error
\* "Invalid response format from AI mentor...".
lookupWordParse(responseText) ==
    JSONparse(stripJsonFence(trim(responseText)))

\* lookupWord once the service has answered: response.text is a string, or
\* undefined when the answer carries no text (then .trim() throws inside the try).
lookupWord(responseText) ==
    IF responseText.type # "string"
    THEN [threw |-> TRUE, val |-> JSUndefined]
    ELSE lookupWordParse(responseText.v)

(***************************************************************************)
(* Bounds of the model                                                     *)
(***************************************************************************)
MaxLookups == 3      \* lookups sent to the service in one session
MaxSessions == 2     \* voice recognizers created in one session
SessionStart == 100  \* Date.now() at the first record of the session

(***************************************************************************)
(* App.tsx: history                                                        *)
(***************************************************************************)
HistoryCap == 50
StorageKey == "linguist_history"
NoItem == JSNull   \* localStorage.getItem of an absent key

JSNumber(n) == [type |-> "number", v |-> n]

\* a !== b.  Two objects (or arrays) met here are never the same reference:
\* one is freshly parsed, the other was stored earlier.
StrictNotEqual(a, b) ==
    IF a.type \in {"object", "array"} \/ b.type \in {"object", "array"}
    THEN TRUE
    ELSE a # b

\* Array.prototype.filter(h => h.word !== word)
RECURSIVE filterOthers(_, _)
filterOthers(h, word) ==
    IF h = <<>> THEN <<>>
    ELSE IF StrictNotEqual(Head(h).word, word)
        THEN <<Head(h)>> \o filterOthers(Tail(h), word)
        ELSE filterOthers(Tail(h), word)

\* Array.prototype.slice(0, n)
slice0(a, n) == SubSeq(a, 1, IF Len(a) < n THEN Len(a) ELSE n)

\* JSON.stringify of a HistoryItem[]: a text (type "jsontext", never the
\* empty string) holding one member list per item; a member whose value is
\* undefined is left out.
JSONstringify(h) ==
    [type |-> "jsontext",
     v |-> [i \in 1..Len(h) |->
              (IF h[i].word.type = "undefined" THEN <<>>
               ELSE <<[k |-> "word", val |-> h[i].word]>>)
              \o <<[k |-> "timestamp", val |-> JSNumber(h[i].timestamp)]>>]]

\* JSON.parse of such a text back into a HistoryItem[]
memberOf(members, key) ==
    IF \E j \in 1..Len(members) : members[j].k = key
    THEN (members[CHOOSE j \in 1..Len(members) : members[j].k = key]).val
    ELSE JSUndefined

JSONparseHistory(saved) ==
    [i \in 1..Len(saved.v) |->
        [word |-> memberOf(saved.v[i], "word"),
         timestamp |-> memberOf(saved.v[i], "timestamp").v]]

\* A faulty addToHistory: the list is not cut to HistoryCap entries.
addToHistory_noSlice(h, word, t) ==
    LET updated == <<[word |-> word, timestamp |-> t]>> \o filterOthers(h, word)
    IN [history |-> updated, storage |-> JSONstringify(updated)]

\* A faulty addToHistory: the list of the closure is persisted, not the new one.
addToHistory_persistOld(h, word, t) ==
    LET updated == slice0(<<[word |-> word, timestamp |-> t]>> \o filterOthers(h, word),
                          HistoryCap)
    IN [history |-> updated, storage |-> JSONstringify(h)]

\* A faulty addToHistory: earlier entries of the word are kept.
addToHistory_noFilter(h, word, t) ==
    LET updated == slice0(<<[word |-> word, timestamp |-> t]>> \o h, HistoryCap)
    IN [history |-> updated, storage |-> JSONstringify(updated)]

\* A faulty addToHistory: the new entry is put last.
addToHistory_appendsLast(h, word, t) ==
    LET updated == slice0(filterOthers(h, word) \o <<[word |-> word, timestamp |-> t]>>,
                          HistoryCap)
    IN [history |-> updated, storage |-> JSONstringify(updated)]

\* addToHistory(word), in a closure whose `history` is h, at Date.now() = t:
\* the list handed to setHistory and the text handed to localStorage.setItem.
addToHistory(h, word, t) ==
    LET newItem == [word |-> word, timestamp |-> t]
        updated == slice0(<<newItem>> \o filterOthers(h, word), HistoryCap)
    IN [history |-> updated, storage |-> JSONstringify(updated)]

\* What earlier sessions can have left in storage: the k words recorded
\* last, most recent first.
DigitChars == <<"0", "1", "2", "3", "4", "5", "6", "7", "8", "9">>
OldWord(i) ==
    IF i = 1 THEN <<"a">>
    ELSE IF i = 2 THEN <<"A">>
    ELSE <<"w", DigitChars[(i \div 10) + 1], DigitChars[(i % 10) + 1]>>

SavedList(k) ==
    JSONstringify([i \in 1..k |->
        [word |-> JSString(OldWord(k + 1 - i)), timestamp |-> k + 1 - i]])

SavedSizes == {2, HistoryCap}

(***************************************************************************)
(* The service's answers (geminiService.ts asks for this schema)           *)
(***************************************************************************)
K_word == <<"w", "o", "r", "d">>
K_phonetic == <<"p", "h", "o", "n", "e", "t", "i", "c">>
K_partOfSpeech == <<"p", "a", "r", "t", "O", "f", "S", "p", "e", "e", "c", "h">>
K_definition == <<"d", "e", "f", "i", "n", "i", "t", "i", "o", "n">>
K_chineseTranslation ==
    <<"c", "h", "i", "n", "e", "s", "e", "T", "r", "a", "n", "s", "l", "a", "t", "i", "o", "n">>
K_examples == <<"e", "x", "a", "m", "p", "l", "e", "s">>
K_grammarNotes == <<"g", "r", "a", "m", "m", "a", "r", "N", "o", "t", "e", "s">>
K_en == <<"e", "n">>
K_cn == <<"c", "n">>

RequiredFields ==
    <<K_word, K_phonetic, K_partOfSpeech, K_definition, K_chineseTranslation,
      K_examples, K_grammarNotes>>

Str(s) == <<Quote>> \o s \o <<Quote>>
Member(key, text) == Str(key) \o <<":">> \o text

RECURSIVE joinComma(_)
joinComma(parts) ==
    IF parts = <<>> THEN <<>>
    ELSE IF Len(parts) = 1 THEN parts[1]
    ELSE parts[1] \o <<",">> \o joinComma(Tail(parts))

ObjectText(members) == <<"{">> \o joinComma(members) \o <<"}">>

OneExample ==
    <<"[">> \o ObjectText(<<Member(K_en, Str(<<"e">>)), Member(K_cn, Str(<<"z">>))>>) \o <<"]">>

\* The members of a WordDefinition answer for headword w with grammar notes g.
WordMember(w) == Member(K_word, Str(w))
OtherMembers(examples, g) ==
    <<Member(K_phonetic, Str(<<"p">>)),
      Member(K_partOfSpeech, Str(<<"v">>)),
      Member(K_definition, Str(<<"d">>)),
      Member(K_chineseTranslation, Str(<<"t">>)),
      Member(K_examples, examples),
      Member(K_grammarNotes, Str(g))>>

Payload(w, examples, g) == ObjectText(<<WordMember(w)>> \o OtherMembers(examples, g))
PayloadWithoutWord(examples, g) == ObjectText(OtherMembers(examples, g))

Fenced(c) == FenceJson \o <<"\n">> \o c \o <<"\n">> \o Fence

\* Truncated: the last character of an answer is cut off.
Truncated(c) == SubSeq(c, 1, Len(c) - 1)

\* A value has the WordDefinition's required fields: an object that defines
\* every one of them.
HasRequiredFields(x) ==
    /\ x.type = "object"
    /\ \A i \in 1..Len(RequiredFields) : Get(x, RequiredFields[i]).type # "undefined"

\* The answers the service gives in the App specification.
ServiceTexts ==
    { <<" ">> \o Payload(<<"a">>, <<"[", "]">>, <<"g">>) \o <<"\n">>,
      Fenced(Payload(<<"b">>, OneExample, <<"g">>)),
      PayloadWithoutWord(<<"[", "]">>, <<"g">>),
      <<"n", "u", "l", "l">>,
      Truncated(Payload(<<"a">>, <<"[", "]">>, <<"g">>)) }

\* How a request to the service ends: it rejects, or it answers with a text.
Outcomes ==
    {[rejected |-> TRUE, text |-> JSUndefined]}
    \cup {[rejected |-> FALSE, text |-> JSString(t)] : t \in ServiceTexts}

\* `await lookupWord(trimmed, mode)` for each way the request can end:
\* [threw, val].
lookupWordResults ==
    [o \in Outcomes |->
        IF o.rejected THEN [threw |-> TRUE, val |-> JSUndefined]
        ELSE lookupWord(o.text)]

(***************************************************************************)
(* State                                                                   *)
(***************************************************************************)
VARIABLES
    ready,              \* the mount effect (load of the history) has run
    query,              \* useState('')
    loading,            \* useState(false)
    result,             \* useState<WordDefinition | null>(null)
    history,            \* useState<HistoryItem[]>([])
    searchMode,         \* useState<'EN' | 'CN'>('EN')
    isListening,        \* useState(false)
    transcriptFeedback, \* useState('')
    recognitionRef,     \* useRef(null): 0, or the index of a recognizer
    recognizers,        \* the SpeechRecognition objects created so far
    speechSupported,    \* window.SpeechRecognition || window.webkitSpeechRecognition
    storage,            \* localStorage['linguist_history']
    inflight,           \* lookupWord calls awaiting the service
    issued,             \* number of lookupWord calls made
    now,                \* Date.now()
    alertMsg,           \* the alert() of the last step, "" when none
    \* WordDisplay.tsx
    isPlaying,          \* useState(false)
    isTtsLoading,       \* useState(false)
    sourceNodeRef,      \* useRef(null): 0, or the index of a source node
    sources,            \* the AudioBufferSourceNodes created so far
    audioCtx,           \* audioContextRef: "none", or the context's state
    narrations,         \* handleReadAloud calls suspended at an await
    ttsIssued,          \* number of generateAudio calls made
    \* lookupWord's parsing applied to one response text
    fn

appVars ==
    <<ready, query, loading, result, history, searchMode, isListening,
      transcriptFeedback, recognitionRef, recognizers, speechSupported,
      storage, inflight, issued, now, alertMsg>>

wdVars ==
    <<isPlaying, isTtsLoading, sourceNodeRef, sources, audioCtx, narrations, ttsIssued>>

vars == <<appVars, wdVars, fn>>

ListeningMsg == <<"L", "i", "s", "t", "e", "n", "i", "n", "g", ".", ".", ".">>
ErrorMsg(code) == <<"E", "r", "r", "o", "r", ":", " ">> \o code

SearchFailed == "Search failed. The AI might be busy or the query was unclear."
VoiceUnsupported == "Voice search is not supported in this browser."

\* What the user types, what the recognizer hears, the recognizer's error codes.
TypedQueries == {<<" ", "b", " ">>, <<" ", "\n">>}
Transcripts == {<<"c">>, <<" ">>}
ErrorCodes == {<<"n", "o", "-", "s", "p", "e", "e", "c", "h">>}
Modes == {"EN", "CN"}

InitApp ==
    /\ ready = FALSE
    /\ query = JSString(<<>>)
    /\ loading = FALSE
    /\ result = JSNull
    /\ history = <<>>
    /\ searchMode = "EN"
    /\ isListening = FALSE
    /\ transcriptFeedback = <<>>
    /\ recognitionRef = 0
    /\ recognizers = <<>>
    /\ speechSupported \in BOOLEAN
    /\ storage \in {NoItem} \cup {SavedList(k) : k \in SavedSizes}
    /\ inflight = {}
    /\ issued = 0
    /\ now = SessionStart
    /\ alertMsg = ""

InitWordDisplay ==
    /\ isPlaying = FALSE
    /\ isTtsLoading = FALSE
    /\ sourceNodeRef = 0
    /\ sources = <<>>
    /\ audioCtx = "none"
    /\ narrations = {}
    /\ ttsIssued = 0

FnIdle == [pc |-> "idle"]

(***************************************************************************)
(* WordDisplay.tsx: what a change of the displayed result does to it       *)
(***************************************************************************)
\* AudioBufferSourceNode.stop(): a playing source falls silent at once; its
\* ended event is still to come.
stopSource(src) ==
    IF src.state = "playing" THEN [src EXCEPT !.state = "stopped"] ELSE src

\* The cleanup of useEffect(() => {...}, [data]).
effectCleanup(srcs, ref) ==
    IF ref # 0 THEN [srcs EXCEPT ![ref] = stopSource(srcs[ref])] ELSE srcs

\* {result && <WordDisplay data={result} />} when App sets the result to
\* data: a new object makes the cleanup run; a falsy one unmounts the
\* component, which runs the cleanup and discards its state and refs.  The
\* sources and the suspended handleReadAloud calls of a discarded instance
\* live on as orphans: their setState calls do nothing, and a suspended call
\* keeps the audio context of its instance (ctx).
setResultInWordDisplay(data) ==
    LET cleaned == IF Truthy(result) THEN effectCleanup(sources, sourceNodeRef) ELSE sources
    IN
    IF Truthy(result) /\ ~Truthy(data)
    THEN /\ sources' = [i \in 1..Len(cleaned) |-> [cleaned[i] EXCEPT !.orphan = TRUE]]
         /\ narrations' = {[n EXCEPT !.orphan = TRUE,
                                     !.ctx = IF n.orphan THEN n.ctx ELSE audioCtx]
                              : n \in narrations}
         /\ isPlaying' = FALSE
         /\ isTtsLoading' = FALSE
         /\ sourceNodeRef' = 0
         /\ audioCtx' = "none"
         /\ UNCHANGED ttsIssued
    ELSE /\ sources' = cleaned
         /\ UNCHANGED <<isPlaying, isTtsLoading, sourceNodeRef, audioCtx,
                        narrations, ttsIssued>>

\* A handler of App that sets no result leaves WordDisplay as it is.
WordDisplayIdle == UNCHANGED <<wdVars, fn>>

(***************************************************************************)
(* App.tsx: the handlers                                                   *)
(***************************************************************************)
\* useEffect(() => {...}, []): runs once, after the first render.
Mount ==
    /\ ~ready
    /\ ready' = TRUE
    /\ history' = IF Truthy(storage) THEN JSONparseHistory(storage) ELSE history
    /\ alertMsg' = ""
    /\ WordDisplayIdle
    /\ UNCHANGED <<query, loading, result, searchMode, isListening,
                   transcriptFeedback, recognitionRef, recognizers,
                   speechSupported, storage, inflight, issued, now>>

\* A faulty performSearch: the blank check is missing.
performSearch_noBlankCheck(searchQuery, mode, captured, feedback) ==
    IF searchQuery.type # "string"
    THEN /\ transcriptFeedback' = feedback
         /\ UNCHANGED <<loading, inflight, issued>>
    ELSE /\ issued < MaxLookups
         /\ loading' = TRUE
         /\ transcriptFeedback' = <<>>
         /\ inflight' = inflight \cup
                {[id |-> issued + 1, query |-> trim(searchQuery.v), mode |-> mode,
                  history |-> captured]}
         /\ issued' = issued + 1

\* performSearch(searchQuery, mode) up to its await, in a closure whose
\* history is `captured`.  feedback is the transcript feedback in force when
\* it is called.  A searchQuery that is no string makes .trim() throw: the
\* promise rejects and nothing is set.
performSearch(searchQuery, mode, captured, feedback) ==
    IF searchQuery.type # "string" \/ trim(searchQuery.v) = <<>>
    THEN /\ transcriptFeedback' = feedback
         /\ UNCHANGED <<loading, inflight, issued>>
    ELSE /\ issued < MaxLookups
         /\ loading' = TRUE
         /\ transcriptFeedback' = <<>>
         /\ inflight' = inflight \cup
                {[id |-> issued + 1, query |-> trim(searchQuery.v), mode |-> mode,
                  history |-> captured]}
         /\ issued' = issued + 1

\* <input onChange={(e) => setQuery(e.target.value)}>
ChangeQuery(q) ==
    /\ ready
    /\ query' = JSString(q)
    /\ alertMsg' = ""
    /\ WordDisplayIdle
    /\ UNCHANGED <<ready, loading, result, history, searchMode, isListening,
                   transcriptFeedback, recognitionRef, recognizers,
                   speechSupported, storage, inflight, issued, now>>

\* the EN / CN mode buttons
SetSearchMode(m) ==
    /\ ready
    /\ searchMode' = m
    /\ alertMsg' = ""
    /\ WordDisplayIdle
    /\ UNCHANGED <<ready, query, loading, result, history, isListening,
                   transcriptFeedback, recognitionRef, recognizers,
                   speechSupported, storage, inflight, issued, now>>

\* handleFormSubmit; the submit button is disabled while loading.
handleFormSubmit ==
    /\ ready
    /\ ~loading
    /\ performSearch(query, searchMode, history, transcriptFeedback)
    /\ alertMsg' = ""
    /\ WordDisplayIdle
    /\ UNCHANGED <<ready, query, result, history, searchMode, isListening,
                   recognitionRef, recognizers, speechSupported, storage, now>>

\* a history item's onClick: performSearch(item.word, 'EN')
HistoryClick(i) ==
    /\ ready
    /\ i \in 1..Len(history)
    /\ performSearch(history[i].word, "EN", history, transcriptFeedback)
    /\ alertMsg' = ""
    /\ WordDisplayIdle
    /\ UNCHANGED <<ready, query, result, history, searchMode, isListening,
                   recognitionRef, recognizers, speechSupported, storage, now>>

\* A faulty finally block: the loading flag is left as it is.
finallyBlock_keepsLoading == UNCHANGED loading

\* finally { setLoading(false); }
finallyBlock == loading' = FALSE

\* The continuation of performSearch after `await lookupWord(trimmed, mode)`,
\* for the call l and the way o the request ended.
LookupReply(l, o) ==
    /\ l \in inflight
    /\ inflight' = inflight \ {l}
    /\ finallyBlock
    /\ LET r == lookupWordResults[o]
           data == r.val
       IN
       IF r.threw
       THEN \* catch: lookupWord rejected
            /\ alertMsg' = SearchFailed
            /\ UNCHANGED <<result, history, storage, query, now, wdVars>>
       ELSE IF data.type \in {"null", "undefined"}
       THEN \* setResult(data), then data.word throws a TypeError: catch
            /\ result' = data
            /\ setResultInWordDisplay(data)
            /\ alertMsg' = SearchFailed
            /\ UNCHANGED <<history, storage, query, now>>
       ELSE LET word == Get(data, K_word)
                updated == addToHistory(l.history, word, now)
            IN
            /\ result' = data
            /\ setResultInWordDisplay(data)
            /\ history' = updated.history
            /\ storage' = updated.storage
            /\ query' = word
            /\ now' = now + 1
            /\ alertMsg' = ""
    /\ UNCHANGED fn
    /\ UNCHANGED <<ready, searchMode, isListening, transcriptFeedback,
                   recognitionRef, recognizers, speechSupported, issued>>

(***************************************************************************)
(* App.tsx: voice input.  A recognizer is [state, lang, mode, history,     *)
(* heard]: mode and history are the searchMode and the history of the      *)
(* render whose startVoiceSearch created it (its handlers close over that  *)
(* render's searchMode and performSearch); heard tells that it has been    *)
(* listening.  state is the platform's: "starting" after start(),          *)
(* "listening" after the start event, "stopping" after stop(), "finishing" *)
(* after a final result, "errored" after an error event (the end event is  *)
(* still to come), "ended" after the end event.                            *)
(***************************************************************************)
\* SpeechRecognition.stop(): ends the capture; a recognizer that has been
\* listening still returns a result for the audio captured so far.
stopRecognizer(rec) ==
    IF rec.state \in {"starting", "listening"}
    THEN [rec EXCEPT !.state = "stopping"]
    ELSE rec

langOf(mode) == IF mode = "EN" THEN "en-US" ELSE "zh-CN"

startVoiceSearch ==
    /\ ready
    /\ IF ~speechSupported
       THEN /\ alertMsg' = VoiceUnsupported
            /\ UNCHANGED <<recognitionRef, recognizers>>
       ELSE /\ Len(recognizers) < MaxSessions
            /\ alertMsg' = ""
            /\ LET stopped ==
                       IF recognitionRef # 0
                       THEN [recognizers EXCEPT
                                ![recognitionRef] = stopRecognizer(recognizers[recognitionRef])]
                       ELSE recognizers
                   recognition ==
                       [state |-> "starting", lang |-> langOf(searchMode),
                        mode |-> searchMode, history |-> history, heard |-> FALSE]
               IN
               /\ recognizers' = Append(stopped, recognition)
               /\ recognitionRef' = Len(recognizers) + 1
    /\ WordDisplayIdle
    /\ UNCHANGED <<ready, query, loading, result, history, searchMode,
                   isListening, transcriptFeedback, speechSupported, storage,
                   inflight, issued, now>>

\* recognition.onstart
RecOnStart(r) ==
    /\ r \in 1..Len(recognizers)
    /\ recognizers[r].state = "starting"
    /\ recognizers' = [recognizers EXCEPT ![r].state = "listening", ![r].heard = TRUE]
    /\ isListening' = TRUE
    /\ transcriptFeedback' = ListeningMsg
    /\ alertMsg' = ""
    /\ WordDisplayIdle
    /\ UNCHANGED <<ready, query, loading, result, history, searchMode,
                   recognitionRef, speechSupported, storage, inflight, issued, now>>

\* recognition.onend
RecOnEnd(r) ==
    /\ r \in 1..Len(recognizers)
    /\ recognizers[r].state \in {"listening", "stopping", "finishing", "errored"}
    /\ recognizers' = [recognizers EXCEPT ![r].state = "ended"]
    /\ isListening' = FALSE
    /\ alertMsg' = ""
    /\ WordDisplayIdle
    /\ UNCHANGED <<ready, query, loading, result, history, searchMode,
                   transcriptFeedback, recognitionRef, speechSupported, storage,
                   inflight, issued, now>>

\* A faulty onerror: isListening is left as it is.
RecOnError_keepsListening(r, code) ==
    /\ r \in 1..Len(recognizers)
    /\ recognizers[r].state \in {"starting", "listening", "stopping"}
    /\ recognizers' = [recognizers EXCEPT ![r].state = "errored"]
    /\ transcriptFeedback' = ErrorMsg(code)
    /\ alertMsg' = ""
    /\ WordDisplayIdle
    /\ UNCHANGED <<ready, query, loading, result, history, searchMode, isListening,
                   recognitionRef, speechSupported, storage, inflight, issued, now>>

\* recognition.onerror, with event.error = code: the platform reports an
\* error before the start event, while listening, or while it works on the
\* audio captured before stop().
RecOnError(r, code) ==
    /\ r \in 1..Len(recognizers)
    /\ recognizers[r].state \in {"starting", "listening", "stopping"}
    /\ recognizers' = [recognizers EXCEPT ![r].state = "errored"]
    /\ isListening' = FALSE
    /\ transcriptFeedback' = ErrorMsg(code)
    /\ alertMsg' = ""
    /\ WordDisplayIdle
    /\ UNCHANGED <<ready, query, loading, result, history, searchMode,
                   recognitionRef, speechSupported, storage, inflight, issued, now>>

\* A faulty onresult: every result is treated as final.
RecOnResult_ignoresFinal(r, transcript, isFinal) ==
    /\ r \in 1..Len(recognizers)
    /\ \/ recognizers[r].state = "listening"
       \/ recognizers[r].state = "stopping" /\ recognizers[r].heard /\ isFinal
    /\ recognizers' =
           [recognizers EXCEPT ![r].state = IF isFinal THEN "finishing" ELSE @]
    /\ alertMsg' = ""
    /\ query' = JSString(transcript)
    /\ performSearch(JSString(transcript), recognizers[r].mode,
                     recognizers[r].history, transcript)
    /\ WordDisplayIdle
    /\ UNCHANGED <<ready, result, history, searchMode, isListening,
                   recognitionRef, speechSupported, storage, now>>

\* recognition.onresult, with the joined transcript of event.results and
\* event.results[0].isFinal
RecOnResult(r, transcript, isFinal) ==
    /\ r \in 1..Len(recognizers)
    /\ \/ recognizers[r].state = "listening"
       \/ recognizers[r].state = "stopping" /\ recognizers[r].heard /\ isFinal
    /\ recognizers' =
           [recognizers EXCEPT ![r].state = IF isFinal THEN "finishing" ELSE @]
    /\ alertMsg' = ""
    /\ IF isFinal
       THEN /\ query' = JSString(transcript)
            /\ performSearch(JSString(transcript), recognizers[r].mode,
                             recognizers[r].history, transcript)
       ELSE /\ transcriptFeedback' = transcript
            /\ UNCHANGED <<query, loading, inflight, issued>>
    /\ WordDisplayIdle
    /\ UNCHANGED <<ready, result, history, searchMode, isListening,
                   recognitionRef, speechSupported, storage, now>>

(***************************************************************************)
(* WordDisplay.tsx: decoding the audio                                     *)
(***************************************************************************)
Base64Alphabet ==
    <<"A", "B", "C", "D", "E", "F", "G", "H", "I", "J", "K", "L", "M",
      "N", "O", "P", "Q", "R", "S", "T", "U", "V", "W", "X", "Y", "Z",
      "a", "b", "c", "d", "e", "f", "g", "h", "i", "j", "k", "l", "m",
      "n", "o", "p", "q", "r", "s", "t", "u", "v", "w", "x", "y", "z",
      "0", "1", "2", "3", "4", "5", "6", "7", "8", "9", "+", "/">>

IsBase64Char(c) == \E i \in 1..Len(Base64Alphabet) : Base64Alphabet[i] = c
sextet(c) == (CHOOSE i \in 1..Len(Base64Alphabet) : Base64Alphabet[i] = c) - 1

NotWhitespace(c) == c \notin Whitespace

\* The bytes of the full groups of four characters, then of the last two or
\* three characters.
RECURSIVE decodeGroups(_)
decodeGroups(d) ==
    IF Len(d) >= 4
    THEN LET n == sextet(d[1]) * 262144 + sextet(d[2]) * 4096 + sextet(d[3]) * 64 + sextet(d[4])
         IN <<n \div 65536, (n \div 256) % 256, n % 256>> \o decodeGroups(SubSeq(d, 5, Len(d)))
    ELSE IF Len(d) = 3
    THEN LET n == sextet(d[1]) * 4096 + sextet(d[2]) * 64 + sextet(d[3])
         IN <<n \div 1024, (n \div 4) % 256>>
    ELSE IF Len(d) = 2
    THEN <<(sextet(d[1]) * 64 + sextet(d[2])) \div 16>>
    ELSE <<>>

\* window.atob(s): [threw, codes], codes being the char codes of the binary
\* string.  White space is dropped, then one or two "=" that end a text
\* whose length is a multiple of four; what is left must be base64
\* characters, not one more than a multiple of four.
atob(s) ==
    LET t == SelectSeq(s, NotWhitespace)
        n == Len(t)
        pad == IF n > 0 /\ n % 4 = 0 /\ t[n] = "="
               THEN (IF t[n - 1] = "=" THEN 2 ELSE 1)
               ELSE 0
        d == SubSeq(t, 1, n - pad)
    IN IF Len(d) % 4 = 1 \/ \E i \in 1..Len(d) : ~IsBase64Char(d[i])
       THEN [threw |-> TRUE, codes |-> <<>>]
       ELSE [threw |-> FALSE, codes |-> decodeGroups(d)]

\* decodeBase64(base64): [threw, bytes]; a Uint8Array element is the char
\* code modulo 256.
decodeBase64(base64) ==
    LET binaryString == atob(base64)
    IN IF binaryString.threw THEN [threw |-> TRUE, bytes |-> <<>>]
       ELSE [threw |-> FALSE,
             bytes |-> [i \in 1..Len(binaryString.codes) |-> binaryString.codes[i] % 256]]

\* A faulty reading of the samples: the high byte is taken first.
toInt16_bigEndian(lo, hi) ==
    LET u == hi + 256 * lo IN IF u >= 32768 THEN u - 65536 ELSE u

\* An element of new Int16Array(buffer) on a little-endian machine.
toInt16(lo, hi) ==
    LET u == lo + 256 * hi IN IF u >= 32768 THEN u - 65536 ELSE u

SampleScale == 32768
SampleRate == 24000

\* decodeAudioData(data, ctx): [threw, samples, sampleRate].  A sample is
\* held as its numerator over SampleScale (dataInt16[i] / 32768.0 is exact
\* in a Float32).  new Int16Array(data.buffer) throws on an odd number of
\* bytes, ctx.createBuffer on a frame count of zero.
decodeAudioData(data) ==
    IF Len(data) % 2 # 0 \/ Len(data) = 0
    THEN [threw |-> TRUE, samples |-> <<>>, sampleRate |-> SampleRate]
    ELSE [threw |-> FALSE,
          samples |-> [i \in 1..(Len(data) \div 2) |-> toInt16(data[2 * i - 1], data[2 * i])],
          sampleRate |-> SampleRate]

\* The try block of handleReadAloud up to source.start(0): [threw, samples].
decodeForPlayback(base64Audio) ==
    LET audioData == decodeBase64(base64Audio)
    IN IF audioData.threw THEN [threw |-> TRUE, samples |-> <<>>]
       ELSE LET audioBuffer == decodeAudioData(audioData.bytes)
            IN [threw |-> audioBuffer.threw, samples |-> audioBuffer.samples]

(***************************************************************************)
(* WordDisplay.tsx: narration.  A source is [state, word, frames, orphan]: *)
(* state is "playing" after start(0), "stopped" after stop() (silent, the  *)
(* ended event still to come), "ended" after the ended event; word is the  *)
(* headword of the text it reads.  A suspended handleReadAloud call is     *)
(* [id, pc, word, audio, orphan, ctx]: pc is "generate" at `await          *)
(* generateAudio(fullText)` and "resume" at `await ctx.resume()`.          *)
(***************************************************************************)
MaxNarrations == 3   \* generateAudio calls made in one session

VoiceFailed == "Failed to generate voice. Please try again."

\* What generateAudio resolves to: undefined (no audio part, or the call
\* threw), or the inlineData.data of the answer.
AudioPayloads ==
    { JSUndefined,
      JSString(<<"A", "I", "D", "/", "f", "w", "=", "=">>),   \* 00 80 FF 7F
      JSString(<<"A", "A", "E", "=">>),                       \* 00 01
      JSString(<<"A", "A", "=", "=">>),                       \* 00: half a sample
      JSString(<<"!">>) }                                     \* no base64

\* The state a newly constructed AudioContext is in: the autoplay policy decides.
NewContextStates == {"suspended", "running"}

\* A faulty Playing branch: the source is left playing.
stopPlayback_leavesSource ==
    /\ sourceNodeRef' = 0
    /\ isPlaying' = FALSE
    /\ UNCHANGED <<sources, isTtsLoading, audioCtx, narrations, ttsIssued>>

\* if (isPlaying) { ...stop(); sourceNodeRef.current = null; setIsPlaying(false); return; }
stopPlayback ==
    /\ sources' = IF sourceNodeRef # 0
                  THEN [sources EXCEPT ![sourceNodeRef] = stopSource(sources[sourceNodeRef])]
                  ELSE sources
    /\ sourceNodeRef' = 0
    /\ isPlaying' = FALSE
    /\ UNCHANGED <<isTtsLoading, audioCtx, narrations, ttsIssued>>

\* handleReadAloud up to its first await; the button is disabled while
\* isTtsLoading.
handleReadAloud ==
    /\ ready
    /\ Truthy(result)
    /\ ~isTtsLoading
    /\ IF isPlaying
       THEN stopPlayback
       ELSE /\ ttsIssued < MaxNarrations
            /\ isTtsLoading' = TRUE
            /\ narrations' = narrations \cup
                   {[id |-> ttsIssued + 1, pc |-> "generate", word |-> Get(result, K_word),
                     audio |-> JSUndefined, orphan |-> FALSE, ctx |-> "none"]}
            /\ ttsIssued' = ttsIssued + 1
            /\ UNCHANGED <<isPlaying, sourceNodeRef, sources, audioCtx>>
    /\ alertMsg' = ""
    /\ UNCHANGED <<ready, query, loading, result, history, searchMode, isListening,
                   transcriptFeedback, recognitionRef, recognizers, speechSupported,
                   storage, inflight, issued, now, fn>>

\* The try/catch of handleReadAloud for the call n holding the audio a.
playback(n, a) ==
    LET decoded == decodeForPlayback(a.v)
    IN IF decoded.threw
       THEN \* catch: setIsPlaying(false)
            /\ isPlaying' = IF n.orphan THEN isPlaying ELSE FALSE
            /\ UNCHANGED <<sources, sourceNodeRef>>
       ELSE /\ sources' = Append(sources,
                   [state |-> "playing", word |-> n.word,
                    frames |-> Len(decoded.samples), orphan |-> n.orphan])
            /\ sourceNodeRef' = IF n.orphan THEN sourceNodeRef ELSE Len(sources) + 1
            /\ isPlaying' = IF n.orphan THEN isPlaying ELSE TRUE

\* The continuation of handleReadAloud after `await generateAudio(fullText)`
\* resolved to a; newCtx is the state of an AudioContext constructed now.
GenerateAudioReply(n, a, newCtx) ==
    /\ n \in narrations
    /\ n.pc = "generate"
    /\ isTtsLoading' = IF n.orphan THEN isTtsLoading ELSE FALSE
    /\ IF ~Truthy(a)
       THEN /\ alertMsg' = VoiceFailed
            /\ narrations' = narrations \ {n}
            /\ UNCHANGED <<isPlaying, sourceNodeRef, sources, audioCtx>>
       ELSE LET held == IF n.orphan THEN n.ctx ELSE audioCtx
                ctx == IF held = "none" THEN newCtx ELSE held
            IN
            /\ alertMsg' = ""
            /\ IF ctx = "suspended"
               THEN /\ narrations' = (narrations \ {n}) \cup
                           {[n EXCEPT !.pc = "resume", !.audio = a, !.ctx = ctx]}
                    /\ audioCtx' = IF n.orphan THEN audioCtx ELSE ctx
                    /\ UNCHANGED <<isPlaying, sourceNodeRef, sources>>
               ELSE /\ narrations' = narrations \ {n}
                    /\ audioCtx' = IF n.orphan THEN audioCtx ELSE ctx
                    /\ playback(n, a)
    /\ UNCHANGED ttsIssued
    /\ UNCHANGED <<ready, query, loading, result, history, searchMode, isListening,
                   transcriptFeedback, recognitionRef, recognizers, speechSupported,
                   storage, inflight, issued, now, fn>>

\* The continuation of handleReadAloud after `await ctx.resume()`.
ResumeDone(n) ==
    /\ n \in narrations
    /\ n.pc = "resume"
    /\ narrations' = narrations \ {n}
    /\ audioCtx' = IF n.orphan \/ audioCtx = "none" THEN audioCtx ELSE "running"
    /\ playback(n, n.audio)
    /\ alertMsg' = ""
    /\ UNCHANGED <<isTtsLoading, ttsIssued>>
    /\ UNCHANGED <<ready, query, loading, result, history, searchMode, isListening,
                   transcriptFeedback, recognitionRef, recognizers, speechSupported,
                   storage, inflight, issued, now, fn>>

\* source.onended = () => setIsPlaying(false): the ended event of a source
\* that played to its end or was stopped.
SourceEnded(i) ==
    /\ i \in 1..Len(sources)
    /\ sources[i].state \in {"playing", "stopped"}
    /\ sources' = [sources EXCEPT ![i].state = "ended"]
    /\ isPlaying' = IF sources[i].orphan THEN isPlaying ELSE FALSE
    /\ alertMsg' = ""
    /\ UNCHANGED <<isTtsLoading, sourceNodeRef, audioCtx, narrations, ttsIssued>>
    /\ UNCHANGED <<ready, query, loading, result, history, searchMode, isListening,
                   transcriptFeedback, recognitionRef, recognizers, speechSupported,
                   storage, inflight, issued, now, fn>>

(***************************************************************************)
(* Specification of the App                                                *)
(***************************************************************************)
ClickPositions == {1, HistoryCap}

\* The App with a user who looks words up by form, by history click and by
\* voice: there is one voice session, the recognizer delivers final results
\* only, and the mode stays EN.
Next ==
    \/ Mount
    \/ \E q \in TypedQueries : ChangeQuery(q)
    \/ handleFormSubmit
    \/ \E i \in ClickPositions : HistoryClick(i)
    \/ \E l \in inflight, o \in Outcomes : LookupReply(l, o)
    \/ recognizers = <<>> /\ startVoiceSearch
    \/ \E r \in 1..Len(recognizers) : RecOnStart(r)
    \/ \E r \in 1..Len(recognizers), t \in Transcripts : RecOnResult(r, t, TRUE)
    \/ \E r \in 1..Len(recognizers) : RecOnEnd(r)

Init == InitApp /\ InitWordDisplay /\ fn = FnIdle

Spec == Init /\ [][Next]_vars

\* The App with a user who waits for the answer of each lookup before the
\* next lookup is issued.
NextSequential ==
    \/ Mount
    \/ \E q \in TypedQueries : ChangeQuery(q)
    \/ inflight = {} /\ handleFormSubmit
    \/ \E i \in ClickPositions : inflight = {} /\ HistoryClick(i)
    \/ \E l \in inflight, o \in Outcomes : LookupReply(l, o)
    \/ recognizers = <<>> /\ startVoiceSearch
    \/ \E r \in 1..Len(recognizers) : RecOnStart(r)
    \/ \E r \in 1..Len(recognizers), t \in Transcripts :
          inflight = {} /\ RecOnResult(r, t, TRUE)
    \/ \E r \in 1..Len(recognizers) : RecOnEnd(r)

SpecSequential == Init /\ [][NextSequential]_vars

\* The word display: words are looked up by the form, and the result on
\* display is read aloud.
NarrationQuery == <<" ", "b", " ">>
NarrationOutcomes ==
    {o \in Outcomes :
        /\ ~o.rejected
        /\ o.text.v \in {<<" ">> \o Payload(<<"a">>, <<"[", "]">>, <<"g">>) \o <<"\n">>,
                          Fenced(Payload(<<"b">>, OneExample, <<"g">>)),
                          <<"n", "u", "l", "l">>}}

NextNarration ==
    \/ Mount
    \/ ChangeQuery(NarrationQuery)
    \/ handleFormSubmit
    \/ \E l \in inflight, o \in NarrationOutcomes : LookupReply(l, o)
    \/ handleReadAloud
    \/ \E n \in narrations, a \in AudioPayloads, c \in NewContextStates :
          GenerateAudioReply(n, a, c)
    \/ \E n \in narrations : ResumeDone(n)
    \/ \E i \in 1..Len(sources) : SourceEnded(i)

InitNarration ==
    /\ InitApp
    /\ speechSupported = FALSE
    /\ storage = NoItem
    /\ InitWordDisplay
    /\ fn = FnIdle

SpecNarration == InitNarration /\ [][NextNarration]_vars

\* The voice input: the user switches the mode and speaks; the recognizer
\* delivers interim and final results, errors and its end.
NextVoice ==
    \/ Mount
    \/ \E m \in Modes : SetSearchMode(m)
    \/ \E l \in inflight, o \in NarrationOutcomes : LookupReply(l, o)
    \/ startVoiceSearch
    \/ \E r \in 1..Len(recognizers) : RecOnStart(r)
    \/ \E r \in 1..Len(recognizers), t \in Transcripts, f \in BOOLEAN : RecOnResult(r, t, f)
    \/ \E r \in 1..Len(recognizers), c \in ErrorCodes : RecOnError(r, c)
    \/ \E r \in 1..Len(recognizers) : RecOnEnd(r)

InitVoice ==
    /\ InitApp
    /\ storage \in {NoItem, SavedList(2)}
    /\ InitWordDisplay
    /\ fn = FnIdle

SpecVoice == InitVoice /\ [][NextVoice]_vars

\* lookupWord's parsing alone: a response text is made of a content and a
\* way of fencing it, and parsed.
FenceStyles == {"json", "jsonLines", "bare"}

Wrap(style, c) ==
    IF style = "json" THEN FenceJson \o <<" ">> \o c \o <<" ">> \o Fence
    ELSE IF style = "jsonLines" THEN Fenced(c)
    ELSE Fence \o <<" ">> \o c \o <<" ">> \o Fence

GrammarNotes ==
    { <<"g">>,
      <<"u", "s", "e", " ">> \o Fence \o <<"x">> \o Fence,
      <<"s", "e", "e", " ">> \o FenceJson }

Contents ==
    {Payload(w, e, g) : w \in {<<"a">>, <<"b">>, <<"c">>, <<"d">>},
                        e \in {<<"[", "]">>, OneExample},
                        g \in GrammarNotes}
    \cup {PayloadWithoutWord(<<"[", "]">>, <<"g">>),
          Truncated(Payload(<<"a">>, <<"[", "]">>, <<"g">>)),
          <<"n", "u", "l", "l">>}

InitParse ==
    /\ InitApp
    /\ speechSupported = FALSE
    /\ storage = NoItem
    /\ InitWordDisplay
    /\ fn \in {[pc |-> "input", content |-> c, style |-> st] :
                  c \in Contents, st \in FenceStyles}

\* lookupWord's try block applied to the fenced content, and to the content alone.
ParseResponse ==
    /\ fn.pc = "input"
    /\ fn' = [pc |-> "done", content |-> fn.content, style |-> fn.style,
              fenced |-> lookupWord(JSString(Wrap(fn.style, fn.content))),
              plain |-> lookupWord(JSString(fn.content))]
    /\ UNCHANGED <<appVars, wdVars>>

NextParse == ParseResponse

SpecParse == InitParse /\ [][NextParse]_vars

\* The PCM decode path alone: a sequence of normalized samples is encoded
\* the way the audio service encodes it (16-bit signed, little-endian,
\* base64) and handed to decodeBase64 and decodeAudioData.  A normalized
\* sample x is held as the integer x * InputScale, half a 16-bit step being
\* the unit, so that the encoder has something to round.
MaxSamples == 2      \* samples in one audio payload

InputScale == 2 * SampleScale

NormalizedSamples ==
    {-InputScale, 1 - InputScale, -SampleScale - 1, -3, -1, 0, 1, 2,
     SampleScale, InputScale - 3, InputScale - 1, InputScale}

SampleSeqs == UNION {[1..n -> NormalizedSamples] : n \in 0..MaxSamples}

\* The 16-bit value of a normalized sample: x * 32768 rounded (half up) and
\* clamped to the int16 range.
quantize(x) ==
    LET q == (x + 1) \div 2
    IN IF q > SampleScale - 1 THEN SampleScale - 1
       ELSE IF q < -SampleScale THEN -SampleScale
       ELSE q

\* The two bytes of a 16-bit value, low byte first.
int16Bytes(q) ==
    LET u == IF q < 0 THEN q + 2 * SampleScale ELSE q
    IN <<u % 256, u \div 256>>

RECURSIVE pcmBytes(_)
pcmBytes(xs) ==
    IF xs = <<>> THEN <<>>
    ELSE int16Bytes(quantize(Head(xs))) \o pcmBytes(Tail(xs))

\* base64 of a byte sequence
RECURSIVE btoa(_)
btoa(b) ==
    IF Len(b) >= 3
    THEN LET n == b[1] * 65536 + b[2] * 256 + b[3]
         IN <<Base64Alphabet[(n \div 262144) + 1], Base64Alphabet[((n \div 4096) % 64) + 1],
              Base64Alphabet[((n \div 64) % 64) + 1], Base64Alphabet[(n % 64) + 1]>>
            \o btoa(SubSeq(b, 4, Len(b)))
    ELSE IF Len(b) = 2
    THEN LET n == b[1] * 1024 + b[2] * 4
         IN <<Base64Alphabet[(n \div 4096) + 1], Base64Alphabet[((n \div 64) % 64) + 1],
              Base64Alphabet[(n % 64) + 1], "=">>
    ELSE IF Len(b) = 1
    THEN <<Base64Alphabet[(b[1] \div 4) + 1], Base64Alphabet[((b[1] % 4) * 16) + 1], "=", "=">>
    ELSE <<>>

InitPcm ==
    /\ InitApp
    /\ speechSupported = FALSE
    /\ storage = NoItem
    /\ InitWordDisplay
    /\ fn \in {[pc |-> "samples", samples |-> xs] : xs \in SampleSeqs}

EncodePcm ==
    /\ fn.pc = "samples"
    /\ fn' = [pc |-> "encoded", samples |-> fn.samples,
              bytes |-> pcmBytes(fn.samples), base64 |-> btoa(pcmBytes(fn.samples))]
    /\ UNCHANGED <<appVars, wdVars>>

\* decodeBase64(base64Audio), then decodeAudioData(audioData, ctx)
DecodePcm ==
    /\ fn.pc = "encoded"
    /\ fn' = [pc |-> "decoded", samples |-> fn.samples, bytes |-> fn.bytes,
              base64 |-> fn.base64, out |-> decodeForPlayback(fn.base64)]
    /\ UNCHANGED <<appVars, wdVars>>

NextPcm == EncodePcm \/ DecodePcm

SpecPcm == InitPcm /\ [][NextPcm]_vars

(***************************************************************************)
(* Properties                                                              *)
(***************************************************************************)
\* The list a reader of localStorage finds, an absent key counting as empty.
StoredHistory == IF Truthy(storage) THEN JSONparseHistory(storage) ELSE <<>>

HasWord(h, w) == \E i \in 1..Len(h) : h[i].word = w
RecordedThisSession(item) == item.timestamp >= SessionStart
IsBlank(q) == q.type = "string" /\ trim(q.v) = <<>>

\* A step in which a lookup is recorded (addToHistory reads the clock).
RecordStep == now' = now + 1

\* C1: in every reachable state the history list and the list persisted under
\* 'linguist_history' hold at most 50 items each.
C1_AtMostFifty ==
    /\ Len(history) <= HistoryCap
    /\ Len(StoredHistory) <= HistoryCap

\* C1, its case: a word new to a full list has been recorded, the oldest entry
\* was evicted, and exactly 50 entries are left.
C1_Witness ==
    /\ Len(history) = HistoryCap
    /\ Len(StoredHistory) = HistoryCap
    /\ history[1].word = JSString(<<"b">>)
    /\ RecordedThisSession(history[1])
    /\ ~HasWord(history, JSString(OldWord(1)))

\* C2: in every reachable state no two items of the history share a word.
C2_NoDuplicateWords ==
    \A i, j \in 1..Len(history) : i # j => history[i].word # history[j].word

\* C2, its case: one of two overlapping lookups has recorded a word the list
\* already held, while the other, issued in an earlier render, is in flight.
C2_Witness ==
    /\ Len(history) >= 2
    /\ RecordedThisSession(history[1])
    /\ \E l \in inflight :
          /\ l.history # history
          /\ HasWord(l.history, history[1].word)

\* C3: when each lookup resolves before the next is issued, a record of w
\* turns the history H into: the new entry for w, then the entries of H whose
\* word differs from w in their order, cut to the first 50.
C3_RecordOntoCurrentList ==
    [][RecordStep =>
        LET w == history'[1].word
            Differs(item) == item.word # w
            others == SelectSeq(history, Differs)
        IN /\ history'[1] = [word |-> w, timestamp |-> now]
           /\ Len(history') = (IF Len(others) + 1 < HistoryCap
                               THEN Len(others) + 1 ELSE HistoryCap)
           /\ \A i \in 2..Len(history') : history'[i] = others[i - 1]]_vars

\* C4: an entry leaves the history only by eviction through the cap: in a
\* step, a word of the list stays in the list unless the list is full and
\* the word is its last entry.
C4_LostOnlyByEviction ==
    [][\A i \in 1..Len(history) :
          \/ HasWord(history', history[i].word)
          \/ Len(history) = HistoryCap /\ i = HistoryCap]_vars

\* C5: once the startup load has run, the persisted list equals the history
\* list, an absent key counting as the empty list.
C5_StorageMirrorsHistory == ready => StoredHistory = history

\* C5, its case: the list was loaded from storage and a lookup has been
\* recorded onto it.
C5_Witness ==
    /\ ready
    /\ Len(history) >= 3
    /\ RecordedThisSession(history[1])
    /\ ~RecordedThisSession(history[2])

\* A response text is malformed: it is no JSON, or JSON without one of the
\* required fields (a fence around it being stripped first).
MalformedPayload(text) ==
    LET p == lookupWord(text)
    IN p.threw \/ ~HasRequiredFields(p.val)

\* C6: a lookup answered by a malformed payload fails: an error is shown, the
\* displayed result is not replaced and no history entry is added.
C6_MalformedPayloadFails ==
    [][\A l \in inflight, o \in Outcomes :
          (LookupReply(l, o) /\ ~o.rejected /\ MalformedPayload(o.text))
          => /\ alertMsg' = SearchFailed
             /\ result' = result
             /\ history' = history
             /\ storage' = storage]_vars

BlankFormSubmit == handleFormSubmit /\ IsBlank(query)
BlankFinalTranscript(r, t) == RecOnResult(r, t, TRUE) /\ trim(t) = <<>>

\* C8 as stated: a blank lookup request, by form or by final voice transcript,
\* changes none of loading, result, query, transcript feedback and history,
\* and calls no service.
C8_BlankRequestIsNoOp ==
    [][(\/ BlankFormSubmit
        \/ \E r \in 1..Len(recognizers), t \in Transcripts : BlankFinalTranscript(r, t))
       => UNCHANGED <<loading, result, query, transcriptFeedback, history,
                      storage, inflight, issued>>]_vars

\* C8, amended: a blank lookup request calls no service and leaves loading,
\* result, history and storage unchanged; by form it changes nothing at all;
\* a blank final voice transcript still becomes the query and the transcript
\* feedback.
C8_BlankRequestNeverSearches ==
    [][/\ BlankFormSubmit
          => UNCHANGED <<loading, result, query, transcriptFeedback, history,
                         storage, inflight, issued>>
       /\ \A r \in 1..Len(recognizers), t \in Transcripts :
             BlankFinalTranscript(r, t)
             => /\ UNCHANGED <<loading, result, history, storage, inflight, issued>>
                /\ query' = JSString(t)
                /\ transcriptFeedback' = t]_vars

\* C8, its case: a blank final transcript has been delivered while a result
\* was displayed, and no lookup is in flight.
C8_Witness ==
    /\ \E r \in 1..Len(recognizers) : recognizers[r].state = "finishing"
    /\ IsBlank(query)
    /\ query.v # <<>>
    /\ transcriptFeedback = query.v
    /\ result.type = "object"
    /\ inflight = {}
    /\ ~loading

\* C9: parsing a fenced response (leading and trailing fence marker, with or
\* without the language tag) gives what parsing its content alone gives.
C9_FenceStrippedOnly ==
    fn.pc = "done" => fn.fenced = fn.plain

\* C10: handleReadAloud while isPlaying stops the source held in
\* sourceNodeRef, clears the reference, sets isPlaying to false and calls
\* generateAudio not at all.
C10_ToggleStopsPlayback ==
    [][(handleReadAloud /\ isPlaying)
       => /\ isPlaying' = FALSE
          /\ isTtsLoading' = FALSE
          /\ sourceNodeRef' = 0
          /\ sourceNodeRef # 0 => sources'[sourceNodeRef].state # "playing"
          /\ ttsIssued' = ttsIssued
          /\ narrations' = narrations]_vars

\* C10, its case: the trigger has stopped a narration that was playing: the
\* source is silent with its ended event still to come, and the state is Idle.
C10_Witness ==
    /\ ~isPlaying
    /\ ~isTtsLoading
    /\ sourceNodeRef = 0
    /\ narrations = {}
    /\ ttsIssued = 1
    /\ Len(sources) = 1
    /\ sources[1].state = "stopped"

\* A step ends the handleReadAloud call n without a source being started:
\* generateAudio gave no audio, or the try block threw.
NarrationFails(n) ==
    /\ n \in narrations
    /\ ~n.orphan
    /\ \A m \in narrations' : m.id # n.id
    /\ Len(sources') = Len(sources)

AllSourcesEnded == \A i \in 1..Len(sources) : sources[i].state = "ended"

\* C11: a narration attempt that fails (no payload from generateAudio, or the
\* decoding throws) leaves isTtsLoading and isPlaying false.
C11_FailedNarrationEndsIdle ==
    [][\A n \in narrations :
          NarrationFails(n) => (~isTtsLoading' /\ ~isPlaying')]_vars

\* C11, its second half: once every request has been answered and every
\* source has ended, the state is neither Loading nor Playing.
C11_QuiescentIsIdle ==
    (narrations = {} /\ AllSourcesEnded) => (~isTtsLoading /\ ~isPlaying)

\* C12: while a result is displayed, no source plays audio composed from
\* another result's text: a change of the displayed result stops the
\* narration of the previous one, be it Playing or Loading.
C12_NoAudioOfPreviousResult ==
    Truthy(result) =>
        \A i \in 1..Len(sources) :
            sources[i].state = "playing" => sources[i].word = Get(result, K_word)

PlayingSources == {i \in 1..Len(sources) : sources[i].state = "playing"}

\* C13: at most one narration is in flight or playing: the handleReadAloud
\* calls waiting for generateAudio or for the audio context, and the sources
\* that are playing, number at most one together.
C13_AtMostOneNarration ==
    Cardinality(narrations) + Cardinality(PlayingSources) <= 1

\* C14: whenever a result is displayed, the first history entry's word is the
\* displayed result's word; and a lookup that resolves with a record displays
\* exactly that record, whatever other lookups are in flight.
C14_ResultAndHistoryAgree ==
    /\ [](Truthy(result) =>
            /\ Len(history) >= 1
            /\ history[1].word = Get(result, K_word))
    /\ [][\A l \in inflight, o \in Outcomes :
             (LookupReply(l, o) /\ ~lookupWordResults[o].threw)
             => result' = lookupWordResults[o].val]_vars

\* C14, its case: two lookups overlapped; the one that resolved last was
\* issued before the other was recorded, and its record is displayed.
C14_Witness ==
    /\ result.type = "object"
    /\ inflight = {}
    /\ now = SessionStart + 2
    /\ history[1].word = JSString(<<"a">>)
    /\ history[1].timestamp = SessionStart + 1
    /\ ~HasWord(history, JSString(<<"b">>))
    /\ recognizers = <<>>

\* C15: a recognition result that is not final only replaces the transcript
\* feedback: query, loading, result, history and storage stay as they are
\* and no lookup is issued.
C15_InterimOnlyFeedback ==
    [][\A r \in 1..Len(recognizers), t \in Transcripts :
          RecOnResult(r, t, FALSE)
          => /\ transcriptFeedback' = t
             /\ UNCHANGED <<query, loading, result, history, storage, inflight, issued>>]_vars

\* C15, its case: a listening recognizer has delivered an interim result.
C15_Witness ==
    /\ \E r \in 1..Len(recognizers) : recognizers[r].state = "listening"
    /\ isListening
    /\ transcriptFeedback = <<"c">>
    /\ query = JSString(<<>>)
    /\ issued = 0

\* C16: a final recognition result with a transcript that is not blank makes
\* the transcript the query and issues exactly one lookup, for that
\* transcript and the mode active at that moment; the recognizer's language
\* is the one of that mode.
C16_FinalResultUsesActiveMode ==
    [][\A r \in 1..Len(recognizers), t \in Transcripts :
          (RecOnResult(r, t, TRUE) /\ trim(t) # <<>>)
          => /\ query' = JSString(t)
             /\ \E l \in inflight' :
                   /\ l \notin inflight
                   /\ inflight' = inflight \cup {l}
                   /\ l.query = trim(t)
                   /\ l.mode = searchMode
             /\ recognizers[r].lang = langOf(searchMode)]_vars

\* C17: once a new voice session has been started, a result of a previous
\* recognizer changes neither the query nor the lookups.
C17_PreviousRecognizerIsSilent ==
    [][\A r \in 1..Len(recognizers), t \in Transcripts, f \in BOOLEAN :
          (RecOnResult(r, t, f) /\ r # recognitionRef)
          => UNCHANGED <<query, loading, inflight, issued>>]_vars

AllRecognizersEnded ==
    /\ recognizers # <<>>
    /\ \A r \in 1..Len(recognizers) : recognizers[r].state = "ended"

\* C18: a recognition error shows the platform's error code as feedback and
\* sets isListening to false; start on a platform without speech recognition
\* alerts and changes nothing else; and once every recognizer has ended,
\* isListening is false.
C18_VoiceReturnsToIdle ==
    /\ [][/\ \A r \in 1..Len(recognizers), c \in ErrorCodes :
                RecOnError(r, c)
                => (transcriptFeedback' = ErrorMsg(c) /\ isListening' = FALSE)
          /\ (startVoiceSearch /\ ~speechSupported)
                => /\ alertMsg' = VoiceUnsupported
                   /\ UNCHANGED <<isListening, query, transcriptFeedback,
                                  recognitionRef, recognizers, loading, inflight>>]_vars
    /\ [](AllRecognizersEnded => ~isListening)

\* C18, its case: a listening recognizer reported an error and has ended.
C18_Witness ==
    /\ Len(recognizers) = 1
    /\ recognizers[1].state = "ended"
    /\ recognizers[1].heard
    /\ transcriptFeedback = ErrorMsg(<<"n", "o", "-", "s", "p", "e", "e", "c", "h">>)
    /\ ~isListening

Abs(x) == IF x < 0 THEN -x ELSE x

\* The decode path gave one sample per two bytes, each the 16-bit value over
\* SampleScale, within [-1, 1] and within 1/SampleScale of the original.
DecodedFaithfully ==
    /\ ~fn.out.threw
    /\ 2 * Len(fn.out.samples) = Len(fn.bytes)
    /\ Len(fn.out.samples) = Len(fn.samples)
    /\ \A i \in 1..Len(fn.out.samples) :
          /\ fn.out.samples[i] = quantize(fn.samples[i])
          /\ Abs(fn.out.samples[i]) <= SampleScale
          /\ Abs(fn.out.samples[i] * (InputScale \div SampleScale) - fn.samples[i])
                <= InputScale \div SampleScale

\* C19 as stated: every sequence of normalized samples, encoded as 16-bit
\* little-endian PCM in base64, is decoded faithfully.
C19_PcmRoundTrip ==
    fn.pc = "decoded" => DecodedFaithfully

\* C19, amended: every sequence of at least one normalized sample is decoded
\* faithfully; for the empty sequence the decode path throws.
C19_PcmRoundTripNonEmpty ==
    fn.pc = "decoded" =>
        IF fn.samples = <<>> THEN fn.out.threw ELSE DecodedFaithfully

\* C19, its case: two samples, the most negative one and one that the
\* encoder had to round, have been decoded.
C19_Witness ==
    /\ fn.pc = "decoded"
    /\ fn.samples = <<-InputScale, InputScale - 3>>
    /\ fn.out.samples = <<-SampleScale, SampleScale - 1>>

\* C20: loading is true in every state in which a lookup is in flight.
C20_LoadingWhileInFlight ==
    inflight # {} => loading

\* The source held in sourceNodeRef has been started and has neither ended
\* nor been stopped.
SourceAudible ==
    sourceNodeRef # 0 /\ sources[sourceNodeRef].state = "playing"

\* C21: isPlaying is true exactly when the source held in sourceNodeRef has
\* been started and has neither ended nor been stopped.
C21_IsPlayingAgreesWithOutput ==
    isPlaying <=> SourceAudible

\* C21, its particular case: the ended event of an earlier source that was
\* stopped leaves isPlaying true while the source held in sourceNodeRef is
\* playing.
C21_StaleEndedKeepsPlaying ==
    [][\A i \in 1..Len(sources) :
          (/\ SourceEnded(i)
           /\ i # sourceNodeRef
           /\ sources[i].state = "stopped"
           /\ SourceAudible
           /\ isPlaying)
          => isPlaying']_vars

\* The recognizer held in recognitionRef has delivered its start event and
\* neither its end event nor an error.
RecognizerListening ==
    /\ recognitionRef # 0
    /\ recognizers[recognitionRef].state \in {"listening", "finishing"}

\* C22: isListening is true exactly when the recognizer held in
\* recognitionRef has started and has neither ended nor reported an error.
C22_IsListeningAgreesWithRecognizer ==
    isListening <=> RecognizerListening

\* C22, its particular case: while the recognizer held in recognitionRef is
\* listening, the end event or an error of a previous recognizer changes
\* neither isListening nor the transcript feedback.
C22_PreviousRecognizerLeavesFlag ==
    [][\A r \in 1..Len(recognizers) :
          (/\ RecOnEnd(r) \/ \E c \in ErrorCodes : RecOnError(r, c)
           /\ r # recognitionRef
           /\ RecognizerListening
           /\ isListening)
          => (isListening' /\ transcriptFeedback' = transcriptFeedback)]_vars

=============================================================================
